---- MODULE Spec2Model ----
(***************************************************************************)
(* Model of the OAuth2 client-credentials token cache of hermes-client     *)
(* (src/ebay/auth.rs): EbayAuth with its two tokio mutexes, the callers of *)
(* get_access_token, the token endpoint and a monotonic clock; and of the  *)
(* two users of the cache, get_auth_header and the API wrapper             *)
(* search_items (src/ebay/client.rs).                                      *)
(*                                                                         *)
(* Option<T> is modelled as a sequence of length at most one: <<>> is None *)
(* and <<v>> is Some(v).  An access_token string is modelled by the number *)
(* of the token the server issued.  Time is in seconds.                    *)
(***************************************************************************)
EXTENDS Integers, Sequences, FiniteSets, TLC

\* ---------------------------------------------------------------- bounds
NumCallers == 2        \* concurrent tasks calling get_access_token
MaxCalls == 3          \* get_access_token calls started in one behaviour
MaxTicks == 2          \* clock advances in one behaviour
LongDelay == 61        \* the long clock advance, in seconds

\* ------------------------------------------------------ program constants
SAFETY_MARGIN == 60    \* auth.rs:100  saturating_sub(60)
\* the last Instant the clock type can hold, in seconds; `Instant + Duration`
\* (auth.rs:100) panics beyond it.  Scaled down from the i64 seconds of the
\* platform clock, like the u64 expires_in that exceeds it.
INSTANT_MAX == 1000000
HugeExpiresIn == 2 * INSTANT_MAX

Callers == 1..NumCallers
NoOwner == 0

\* expires_in values the token endpoint reports (seconds)
ExpiresInValues == {30, 61, 3600, HugeExpiresIn}
\* HTTP statuses the token endpoint answers with
Statuses == {200, 401}
FieldNames == {"access_token", "token_type", "expires_in", "scope"}
RequiredFields == {"access_token", "token_type", "expires_in"}

VARIABLES
    now,               \* Instant::now(), monotonic
    ticks,             \* number of clock advances so far
    token,             \* EbayAuth.token          : Option<EbayToken>
    token_expires_at,  \* EbayAuth.token_expires_at : Option<Instant>
    token_lock,        \* holder of the mutex around token, or NoOwner
    expires_lock,      \* holder of the mutex around token_expires_at
    pc,                \* position of each caller in get_access_token
    response,          \* per caller: the outcome of its POST, once there
    fetched,           \* per caller: local `token` of refresh_token (line 91)
    result,            \* per caller: the HermesResult<String> returned
    posts,             \* per caller: POSTs sent by the current call
    path,              \* per caller: "none", "fast" or "refresh"
    seen,              \* per caller: what the check at line 46 observed
    calls,             \* get_access_token calls started
    issued,            \* number of tokens the server has issued
    issuedAt,          \* per caller: server time its token was issued
    httpCalls,         \* token-exchange POSTs sent in total
    obtained,          \* per caller: access_token its own refresh parsed
    config,            \* EbayAuth.config : EbayConfig
    op,                \* per caller: the operation it called
    reply,             \* per caller: what get_auth_header or the wrapper
                       \* returned
    outbound,          \* per caller: the marketplace request its wrapper
                       \* sent
    deadline,          \* per caller: server-side deadline of the token that
                       \* get_access_token returned to it
    request,           \* per caller: its token-exchange POST in flight
    client,            \* an EbayClient: its lazy sub-client slots and the
                       \* token cache of every EbayAuth built for it
    committed          \* history of the cache: which refresh wrote the
                       \* expiry and when, when the server issued the
                       \* token in the slot, and the access_tokens
                       \* written to the slot so far, in order, the
                       \* number of commits completed, and whether a
                       \* refresh has failed

vars == <<now, ticks, token, token_expires_at, token_lock, expires_lock, pc,
          response, fetched, result, posts, path, seen, calls, issued,
          issuedAt, httpCalls, obtained, committed, config, op, reply,
          outbound, deadline, client, request>>

\* ------------------------------------------------------------- helpers
Some(v) == <<v>>
None == <<>>
IsSome(o) == o # <<>>

Ok(v) == [ok |-> TRUE, value |-> v]
Authentication(d) == [ok |-> FALSE, kind |-> "Authentication", detail |-> d]

\* error.rs:9-10  HermesError::ApiRequest(String)
ApiRequest(d) == [ok |-> FALSE, kind |-> "ApiRequest", detail |-> d]

\* what `?` alone would make of a reqwest::Error (error.rs:21-22)
MapSendError_FromReqwest(msg) ==
    [ok |-> FALSE, kind |-> "Http", detail |-> [msg |-> msg]]
\* auth.rs:79  .map_err(|e| HermesError::Authentication(e.to_string()))
MapSendError(msg) == Authentication([msg |-> msg])

UnwrapOrDefault(o) == IF IsSome(o) THEN o[1] ELSE ""

is_success_NoUpperBound(status) == status >= 200
\* reqwest StatusCode::is_success: 200..=299
is_success(status) == status >= 200 /\ status < 300

saturating_sub_Plain(a, b) == a - b
\* u64::saturating_sub
saturating_sub(a, b) == IF a >= b THEN a - b ELSE 0

ExpiresAt_NoMargin(t, expires_in) == t + expires_in
\* line 100: Instant::now() + Duration::from_secs(expires_in.saturating_sub(60))
ExpiresAt(t, expires_in) == t + saturating_sub(expires_in, SAFETY_MARGIN)

\* line 100, Instant + Duration: panics on overflow
AddOverflows(t, expires_in) == ExpiresAt(t, expires_in) > INSTANT_MAX

IsValid_Inverted(t, expires_at) == t >= expires_at
IsValid_OffByOne(t, expires_at) == t <= expires_at
IsValid_DoubleMargin(t, expires_at) == t + SAFETY_MARGIN < expires_at
\* line 47: Instant::now() < expires_at
IsValid(t, expires_at) == t < expires_at

CanLock_Ignored(owner) == TRUE
\* tokio::sync::Mutex::lock: granted when nobody holds the mutex
CanLock(owner) == owner = NoOwner

\* line 54, `self.refresh_token().await?`: where get_access_token goes when
\* refresh_token returns Err
AfterError_Retry == "send"
AfterError_Fallback == "read_lock_token"
AfterError == "done"

ParseToken_ScopeRequired(body) ==
    IF ~IsSome(body) THEN [ok |-> FALSE, cause |-> "error reading body"]
    ELSE IF ~IsSome(body[1].obj) THEN [ok |-> FALSE, cause |-> "expected value"]
    ELSE LET o == body[1].obj[1] IN
         IF \E f \in FieldNames : f \notin DOMAIN o
         THEN [ok |-> FALSE, cause |-> "missing field"]
         ELSE IF o.expires_in < 0
         THEN [ok |-> FALSE, cause |-> "invalid value"]
         ELSE [ok |-> TRUE,
               value |-> [access_token |-> o.access_token,
                          token_type |-> o.token_type,
                          expires_in |-> o.expires_in,
                          scope |-> Some(o.scope)]]

\* serde: Deserialize for EbayToken; scope has #[serde(default)]
ParseToken(body) ==
    IF ~IsSome(body) THEN [ok |-> FALSE, cause |-> "error reading body"]
    ELSE IF ~IsSome(body[1].obj) THEN [ok |-> FALSE, cause |-> "expected value"]
    ELSE LET o == body[1].obj[1] IN
         IF \E f \in RequiredFields : f \notin DOMAIN o
         THEN [ok |-> FALSE, cause |-> "missing field"]
         ELSE IF o.expires_in < 0
         THEN [ok |-> FALSE, cause |-> "invalid value"]
         ELSE [ok |-> TRUE,
               value |-> [access_token |-> o.access_token,
                          token_type |-> o.token_type,
                          expires_in |-> o.expires_in,
                          scope |-> IF "scope" \in DOMAIN o
                                    THEN Some(o.scope) ELSE None]]

\* ------------------------------------------------- the token endpoint
\* JSON object of a token response carrying the fields S
TokenJson(k, e, S) ==
    [f \in S |-> CASE f = "access_token" -> k
                   [] f = "token_type" -> "Bearer"
                   [] f = "expires_in" -> e
                   [] f = "scope" -> "api_scope"]

JsonBody(o) == Some([text |-> "json", obj |-> Some(o)])
TextBody(t) == Some([text |-> t, obj |-> None])

\* bodies a 2xx answer may carry when the server issues token k; None is a
\* body the client fails to read
SuccessBodies(k) ==
    {JsonBody(TokenJson(k, e, FieldNames)) : e \in ExpiresInValues}
    \cup {JsonBody(TokenJson(k, 3600, RequiredFields))}
    \cup {JsonBody(TokenJson(k, 3600, FieldNames \ {f})) : f \in RequiredFields}
    \cup {JsonBody(TokenJson(k, -1, FieldNames))}
    \cup {TextBody("<html>"), None}

ErrorBodies == {TextBody("invalid_client"), None}

HttpResponse(status, body) == [kind |-> "http", status |-> status, body |-> body]
SendError == [kind |-> "error", msg |-> "error sending request"]

\* response.text().await
BodyText(body) == IF IsSome(body) THEN Some(body[1].text) ELSE None

\* configurations an EbayAuth is constructed with (config.rs:5-11);
\* EbayConfig::new sets sandbox to true
Configs == {[app_id |-> "app", cert_id |-> "cert", sandbox |-> TRUE]}
\* the same with either value of the sandbox flag (config.rs:39-42)
EitherConfig ==
    {[app_id |-> "app", cert_id |-> "cert", sandbox |-> b] : b \in BOOLEAN}

base_url_AlwaysSandbox(cfg) == "https://api.sandbox.ebay.com"
\* config.rs:49-55
base_url(cfg) ==
    IF cfg.sandbox THEN "https://api.sandbox.ebay.com"
                   ELSE "https://api.ebay.com"

\* auth.rs:62-77: the POST of refresh_token; the url is base_url followed
\* by the path of the token endpoint
TokenRequest(cfg) ==
    [url |-> <<base_url(cfg), "/identity/v1/oauth2/token">>,
     basic_auth |-> <<cfg.app_id, cfg.cert_id>>,
     form |-> [grant_type |-> "client_credentials",
               scope |-> "https://api.ebay.com/oauth/api_scope"]]

\* the instant the server issued the token in the slot plus its expires_in
ServerDeadline == committed.token_issued + token[1].expires_in

\* ------------------------------------------------------------ EbayClient
\* two of the lazy sub-client slots of EbayClient (client.rs:20-37)
SubClients == {"feed", "taxonomy"}

\* auth.rs:34-35: the cache of a new EbayAuth
EmptyCache == [token |-> None, expires_at |-> None]

NoOperation ==
    [kind |-> "none", name |-> "none", auth |-> 0, posted |-> FALSE,
     constructed |-> FALSE, value |-> None]

\* client.rs:42-64: EbayClient::new builds one EbayAuth (number 0) and
\* leaves every slot empty
NewClient ==
    [slot |-> [s \in SubClients |-> None],
     built |-> 0,
     cache |-> (0 :> EmptyCache),
     last |-> NoOperation]

\* ----------------------------------------------------------------- Init
NoSeen == [token |-> None, expires_at |-> None, at |-> 0, checked |-> FALSE]

\* the state after EbayAuth::new (auth.rs:29-37) with a configuration of
\* the set cfgs
InitWith(cfgs) ==
    /\ now = 0
    /\ ticks = 0
    /\ token = None
    /\ token_expires_at = None
    /\ token_lock = NoOwner
    /\ expires_lock = NoOwner
    /\ pc = [c \in Callers |-> "idle"]
    /\ response = [c \in Callers |-> None]
    /\ fetched = [c \in Callers |-> None]
    /\ result = [c \in Callers |-> None]
    /\ posts = [c \in Callers |-> 0]
    /\ path = [c \in Callers |-> "none"]
    /\ seen = [c \in Callers |-> NoSeen]
    /\ calls = 0
    /\ issued = 0
    /\ issuedAt = [c \in Callers |-> 0]
    /\ httpCalls = 0
    /\ obtained = [c \in Callers |-> 0]
    /\ config \in cfgs
    /\ op = [c \in Callers |-> "get_access_token"]
    /\ reply = [c \in Callers |-> None]
    /\ outbound = [c \in Callers |-> None]
    /\ deadline = [c \in Callers |-> 0]
    /\ client = NewClient
    /\ request = [c \in Callers |-> None]
    /\ committed = [expires_of |-> 0, at |-> 0, token_issued |-> 0,
                    log |-> <<>>, commits |-> 0, failed |-> FALSE]

Init == InitWith(Configs)

\* ------------------------------------------------- get_access_token
\* wrappers that send a marketplace request themselves: search_items
\* (client.rs:205) and get_bidding (offer.rs:36), which can_bid_on_item
\* calls (offer.rs:149)
Wrappers == {"search_items", "can_bid_on_item"}

\* where a task is when its operation o has returned to it
ReturnPoint(o) ==
    CASE o = "get_access_token" -> "done"
      [] o = "can_bid_on_item" -> "bid_done"
      [] OTHER -> "api_done"

\* a task starts operation o, which enters get_access_token (auth.rs:40,
\* auth.rs:108, client.rs:214); its previous operation has returned
CallOp(c, o) ==
    /\ pc[c] \in {"idle", ReturnPoint(op[c])}
    /\ calls < MaxCalls
    /\ op' = [op EXCEPT ![c] = o]
    /\ reply' = [reply EXCEPT ![c] = None]
    /\ outbound' = [outbound EXCEPT ![c] = None]
    /\ deadline' = [deadline EXCEPT ![c] = 0]
    /\ calls' = calls + 1
    /\ pc' = [pc EXCEPT ![c] = "lock_token"]
    /\ response' = [response EXCEPT ![c] = None]
    /\ fetched' = [fetched EXCEPT ![c] = None]
    /\ result' = [result EXCEPT ![c] = None]
    /\ posts' = [posts EXCEPT ![c] = 0]
    /\ path' = [path EXCEPT ![c] = "none"]
    /\ seen' = [seen EXCEPT ![c] = NoSeen]
    /\ obtained' = [obtained EXCEPT ![c] = 0]
    /\ UNCHANGED <<now, ticks, token, token_expires_at, token_lock,
                   expires_lock, issued, issuedAt, httpCalls, committed,
                   config, client, request>>

\* a task calls get_access_token itself (auth.rs:40)
Call(c) == CallOp(c, "get_access_token")

\* a task calls get_auth_header (auth.rs:107-108)
CallHeader(c) == CallOp(c, "get_auth_header")

\* a task calls the wrapper search_items (client.rs:205-214)
CallSearch(c) == CallOp(c, "search_items")

\* a task calls can_bid_on_item, which calls get_bidding (offer.rs:144-149,
\* offer.rs:36-45)
CallCanBid(c) == CallOp(c, "can_bid_on_item")

\* line 43: self.token.lock().await
LockToken(c) ==
    /\ pc[c] = "lock_token"
    /\ CanLock(token_lock)
    /\ token_lock' = c
    /\ pc' = [pc EXCEPT ![c] = "lock_expires"]
    /\ UNCHANGED <<now, ticks, token, token_expires_at, expires_lock,
                   response, fetched, result, posts, path, seen, calls,
                   issued, issuedAt, httpCalls, obtained, committed, config,
                   op, reply, outbound, deadline, client, request>>

\* line 44: self.token_expires_at.lock().await
LockExpires(c) ==
    /\ pc[c] = "lock_expires"
    /\ CanLock(expires_lock)
    /\ expires_lock' = c
    /\ pc' = [pc EXCEPT ![c] = "check"]
    /\ UNCHANGED <<now, ticks, token, token_expires_at, token_lock, response,
                   fetched, result, posts, path, seen, calls, issued,
                   issuedAt, httpCalls, obtained, committed, config, op,
                   reply, outbound, deadline, client, request>>

\* the check with both guards declared in the function's scope: they are
\* kept when the check fails
Check_Invalidates(c) ==
    /\ pc[c] = "check"
    /\ seen' = [seen EXCEPT ![c] = [token |-> token,
                                    expires_at |-> token_expires_at,
                                    at |-> now, checked |-> TRUE]]
    /\ IF IsSome(token) /\ IsSome(token_expires_at)
          /\ IsValid(now, token_expires_at[1])
       THEN /\ result' = [result EXCEPT ![c] = Ok(token[1].access_token)]
            /\ deadline' = [deadline EXCEPT ![c] = ServerDeadline]
            /\ path' = [path EXCEPT ![c] = "fast"]
            /\ pc' = [pc EXCEPT ![c] = "done"]
            /\ UNCHANGED token
       ELSE /\ path' = [path EXCEPT ![c] = "refresh"]
            /\ pc' = [pc EXCEPT ![c] = "send"]
            /\ token' = None
            /\ UNCHANGED <<result, deadline>>
    /\ token_lock' = NoOwner
    /\ expires_lock' = NoOwner
    /\ UNCHANGED <<now, ticks, token_expires_at, response, fetched,
                   posts, calls, issued, issuedAt, httpCalls, obtained,
                   committed, config, op, reply, outbound, client, request>>

Check_KeepsGuards(c) ==
    /\ pc[c] = "check"
    /\ seen' = [seen EXCEPT ![c] = [token |-> token,
                                    expires_at |-> token_expires_at,
                                    at |-> now, checked |-> TRUE]]
    /\ IF IsSome(token) /\ IsSome(token_expires_at)
          /\ IsValid(now, token_expires_at[1])
       THEN /\ result' = [result EXCEPT ![c] = Ok(token[1].access_token)]
            /\ deadline' = [deadline EXCEPT ![c] = ServerDeadline]
            /\ path' = [path EXCEPT ![c] = "fast"]
            /\ pc' = [pc EXCEPT ![c] = "done"]
            /\ token_lock' = NoOwner
            /\ expires_lock' = NoOwner
       ELSE /\ path' = [path EXCEPT ![c] = "refresh"]
            /\ pc' = [pc EXCEPT ![c] = "send"]
            /\ UNCHANGED <<result, deadline, token_lock, expires_lock>>
    /\ UNCHANGED <<now, ticks, token, token_expires_at, response, fetched,
                   posts, calls, issued, issuedAt, httpCalls, obtained,
                   committed, config, op, reply, outbound, client, request>>

\* lines 46-51: the validity check; both guards are dropped at the return
\* or at the end of the block (expires_guard first, then token_guard; no
\* other task can act between the two drops, since every acquisition of
\* the expiry mutex is made while holding the token mutex)
Check(c) ==
    /\ pc[c] = "check"
    /\ seen' = [seen EXCEPT ![c] = [token |-> token,
                                    expires_at |-> token_expires_at,
                                    at |-> now, checked |-> TRUE]]
    /\ IF IsSome(token) /\ IsSome(token_expires_at)
          /\ IsValid(now, token_expires_at[1])
       THEN /\ result' = [result EXCEPT ![c] = Ok(token[1].access_token)]
            /\ deadline' = [deadline EXCEPT ![c] = ServerDeadline]
            /\ path' = [path EXCEPT ![c] = "fast"]
            /\ pc' = [pc EXCEPT ![c] = "done"]
       ELSE /\ path' = [path EXCEPT ![c] = "refresh"]
            /\ pc' = [pc EXCEPT ![c] = "send"]
            /\ UNCHANGED <<result, deadline>>
    /\ token_lock' = NoOwner
    /\ expires_lock' = NoOwner
    /\ UNCHANGED <<now, ticks, token, token_expires_at, response, fetched,
                   posts, calls, issued, issuedAt, httpCalls, obtained,
                   committed, config, op, reply, outbound, client, request>>

\* ---------------------------------------------------- refresh_token
\* a send that waits while another caller's exchange is in flight
Send_Coalesced(c) ==
    /\ pc[c] = "send"
    /\ \A d \in Callers \ {c} : pc[d] \notin {"inflight", "status"}
    /\ posts' = [posts EXCEPT ![c] = @ + 1]
    /\ httpCalls' = httpCalls + 1
    /\ seen' = [seen EXCEPT ![c] = NoSeen]
    /\ request' = [request EXCEPT ![c] = Some(TokenRequest(config))]
    /\ pc' = [pc EXCEPT ![c] = "inflight"]
    /\ UNCHANGED <<now, ticks, token, token_expires_at, token_lock,
                   expires_lock, response, fetched, result, path, calls,
                   issued, issuedAt, obtained, committed, config, op, reply,
                   outbound, deadline, client>>

\* lines 73-78: the POST leaves the client
Send(c) ==
    /\ pc[c] = "send"
    /\ posts' = [posts EXCEPT ![c] = @ + 1]
    /\ httpCalls' = httpCalls + 1
    /\ seen' = [seen EXCEPT ![c] = NoSeen]
    /\ request' = [request EXCEPT ![c] = Some(TokenRequest(config))]
    /\ pc' = [pc EXCEPT ![c] = "inflight"]
    /\ UNCHANGED <<now, ticks, token, token_expires_at, token_lock,
                   expires_lock, response, fetched, result, path, calls,
                   issued, issuedAt, obtained, committed, config, op, reply,
                   outbound, deadline, client>>

\* the request fails on the way, or the endpoint answers; a 2xx answer
\* issues a fresh token at the server's current time
Respond(c) ==
    /\ pc[c] = "inflight"
    /\ request' = [request EXCEPT ![c] = None]
    /\ \/ /\ response' = [response EXCEPT ![c] = Some(SendError)]
          /\ UNCHANGED <<issued, issuedAt>>
       \/ \E status \in Statuses :
            IF is_success(status)
            THEN \E body \in SuccessBodies(issued + 1) :
                    /\ response' = [response EXCEPT
                                      ![c] = Some(HttpResponse(status, body))]
                    /\ issued' = issued + 1
                    /\ issuedAt' = [issuedAt EXCEPT ![c] = now]
            ELSE \E body \in ErrorBodies :
                    /\ response' = [response EXCEPT
                                      ![c] = Some(HttpResponse(status, body))]
                    /\ UNCHANGED <<issued, issuedAt>>
    /\ pc' = [pc EXCEPT ![c] = "status"]
    /\ UNCHANGED <<now, ticks, token, token_expires_at, token_lock,
                   expires_lock, fetched, result, posts, path, seen, calls,
                   httpCalls, obtained, committed, config, op, reply,
                   outbound, deadline, client>>

\* lines 79-92 and the `?` of line 54: a send error, a non-2xx status or
\* an unparsable body ends get_access_token with the error
HandleResponse(c) ==
    /\ pc[c] = "status"
    /\ LET r == response[c][1] IN
       IF r.kind = "error"
       THEN /\ result' = [result EXCEPT ![c] = MapSendError(r.msg)]
            /\ pc' = [pc EXCEPT ![c] = AfterError]
            /\ issuedAt' = [issuedAt EXCEPT ![c] = 0]
            /\ committed' = [committed EXCEPT !.failed = TRUE]
            /\ UNCHANGED <<fetched, obtained>>
       ELSE IF ~is_success(r.status)
       THEN /\ result' = [result EXCEPT ![c] = Authentication(
                            [msg |-> "Failed to get token",
                             status |-> r.status,
                             text |-> UnwrapOrDefault(BodyText(r.body))])]
            /\ pc' = [pc EXCEPT ![c] = AfterError]
            /\ issuedAt' = [issuedAt EXCEPT ![c] = 0]
            /\ committed' = [committed EXCEPT !.failed = TRUE]
            /\ UNCHANGED <<fetched, obtained>>
       ELSE LET parsed == ParseToken(r.body) IN
            IF ~parsed.ok
            THEN /\ result' = [result EXCEPT ![c] = Authentication(
                                 [msg |-> "Failed to parse token response",
                                  cause |-> parsed.cause])]
                 /\ pc' = [pc EXCEPT ![c] = AfterError]
                 /\ issuedAt' = [issuedAt EXCEPT ![c] = 0]
                 /\ committed' = [committed EXCEPT !.failed = TRUE]
                 /\ UNCHANGED <<fetched, obtained>>
            ELSE /\ fetched' = [fetched EXCEPT ![c] = Some(parsed.value)]
                 /\ obtained' = [obtained EXCEPT
                                   ![c] = parsed.value.access_token]
                 /\ pc' = [pc EXCEPT ![c] = "commit_lock_token"]
                 /\ UNCHANGED <<result, issuedAt, committed>>
    /\ response' = [response EXCEPT ![c] = None]
    /\ UNCHANGED <<now, ticks, token, token_expires_at, token_lock,
                   expires_lock, posts, path, seen, calls, issued, httpCalls,
                   config, op, reply, outbound, deadline, client, request>>

CommitLockToken_ExpiresFirst(c) ==
    /\ pc[c] = "commit_lock_token"
    /\ CanLock(expires_lock)
    /\ expires_lock' = c
    /\ pc' = [pc EXCEPT ![c] = "commit_lock_expires"]
    /\ UNCHANGED <<now, ticks, token, token_expires_at, token_lock,
                   response, fetched, result, posts, path, seen, calls,
                   issued, issuedAt, httpCalls, obtained, committed, config,
                   op, reply, outbound, deadline, client, request>>

\* line 96
CommitLockToken(c) ==
    /\ pc[c] = "commit_lock_token"
    /\ CanLock(token_lock)
    /\ token_lock' = c
    /\ pc' = [pc EXCEPT ![c] = "commit_lock_expires"]
    /\ UNCHANGED <<now, ticks, token, token_expires_at, expires_lock,
                   response, fetched, result, posts, path, seen, calls,
                   issued, issuedAt, httpCalls, obtained, committed, config,
                   op, reply, outbound, deadline, client, request>>

\* line 97
CommitLockExpires(c) ==
    /\ pc[c] = "commit_lock_expires"
    /\ CanLock(expires_lock)
    /\ expires_lock' = c
    /\ pc' = [pc EXCEPT ![c] = "store_token"]
    /\ UNCHANGED <<now, ticks, token, token_expires_at, token_lock, response,
                   fetched, result, posts, path, seen, calls, issued,
                   issuedAt, httpCalls, obtained, committed, config, op,
                   reply, outbound, deadline, client, request>>

\* a commit that keeps a token already in the slot
StoreToken_IfEmpty(c) ==
    /\ pc[c] = "store_token"
    /\ token' = IF IsSome(token) THEN token ELSE Some(fetched[c][1])
    /\ committed' = [committed EXCEPT
                       !.token_issued = issuedAt[c],
                       !.log = Append(@, fetched[c][1].access_token)]
    /\ pc' = [pc EXCEPT ![c] = "store_expires"]
    /\ UNCHANGED <<now, ticks, token_expires_at, token_lock, expires_lock,
                   response, fetched, result, posts, path, seen, calls,
                   issued, issuedAt, httpCalls, obtained, config, op, reply,
                   outbound, deadline, client, request>>

\* line 99: *token_guard = Some(token.clone())
StoreToken(c) ==
    /\ pc[c] = "store_token"
    /\ token' = Some(fetched[c][1])
    /\ committed' = [committed EXCEPT
                       !.token_issued = issuedAt[c],
                       !.log = Append(@, fetched[c][1].access_token)]
    /\ pc' = [pc EXCEPT ![c] = "store_expires"]
    /\ UNCHANGED <<now, ticks, token_expires_at, token_lock, expires_lock,
                   response, fetched, result, posts, path, seen, calls,
                   issued, issuedAt, httpCalls, obtained, config, op, reply,
                   outbound, deadline, client, request>>

\* lines 100-103: the expiry is written, both guards are dropped (no task
\* can act between the two drops, see Check) and refresh_token returns.
\* When the addition of line 100 overflows it panics before the write: the
\* unwinding drops both guards (a tokio mutex is not poisoned) and the
\* calling task ends, with line 99 already done.
StoreExpires(c) ==
    /\ pc[c] = "store_expires"
    /\ IF AddOverflows(now, fetched[c][1].expires_in)
       THEN /\ pc' = [pc EXCEPT ![c] = "panicked"]
            /\ UNCHANGED <<token_expires_at, committed>>
       ELSE /\ token_expires_at' =
                   Some(ExpiresAt(now, fetched[c][1].expires_in))
            /\ committed' = [committed EXCEPT
                               !.expires_of = fetched[c][1].access_token,
                               !.at = now,
                               !.commits = @ + 1]
            /\ pc' = [pc EXCEPT ![c] = "read_lock_token"]
    /\ token_lock' = NoOwner
    /\ expires_lock' = NoOwner
    /\ fetched' = [fetched EXCEPT ![c] = None]
    /\ issuedAt' = [issuedAt EXCEPT ![c] = 0]
    /\ UNCHANGED <<now, ticks, token, response, result, posts, path, seen,
                   calls, issued, httpCalls, obtained, config, op, reply,
                   outbound, deadline, client, request>>

\* line 56
ReadLockToken(c) ==
    /\ pc[c] = "read_lock_token"
    /\ CanLock(token_lock)
    /\ token_lock' = c
    /\ pc' = [pc EXCEPT ![c] = "read"]
    /\ UNCHANGED <<now, ticks, token, token_expires_at, expires_lock,
                   response, fetched, result, posts, path, seen, calls,
                   issued, issuedAt, httpCalls, obtained, committed, config,
                   op, reply, outbound, deadline, client, request>>

\* line 57: unwrap the cached token and return its access_token
Read(c) ==
    /\ pc[c] = "read"
    /\ IF IsSome(token)
       THEN /\ result' = [result EXCEPT ![c] = Ok(token[1].access_token)]
            /\ deadline' = [deadline EXCEPT ![c] = ServerDeadline]
            /\ pc' = [pc EXCEPT ![c] = "done"]
       ELSE /\ pc' = [pc EXCEPT ![c] = "panicked"]
            /\ UNCHANGED <<result, deadline>>
    /\ token_lock' = NoOwner
    /\ UNCHANGED <<now, ticks, token, token_expires_at, expires_lock,
                   response, fetched, posts, path, seen, calls, issued,
                   issuedAt, httpCalls, obtained, committed, config, op,
                   reply, outbound, client, request>>

\* ------------------------------------------------------------- the clock
Tick ==
    /\ ticks < MaxTicks
    /\ \E d \in {1, LongDelay} : now' = now + d
    /\ ticks' = ticks + 1
    /\ UNCHANGED <<token, token_expires_at, token_lock, expires_lock, pc,
                   response, fetched, result, posts, path, seen, calls,
                   issued, issuedAt, httpCalls, obtained, committed, config,
                   op, reply, outbound, deadline, client, request>>

\* ------------------------------------------------------ get_auth_header
\* auth.rs:109  format!("Bearer {}", token): the prefix, then the token
FormatHeader_NoSpace(t) == <<"Bearer", t>>
FormatHeader(t) == <<"Bearer ", t>>

\* auth.rs:108-109: get_access_token has returned to get_auth_header; `?`
\* passes its error on, otherwise the header is built
ReturnHeader(c) ==
    /\ pc[c] = "done"
    /\ op[c] = "get_auth_header"
    /\ reply' = [reply EXCEPT ![c] =
                    IF result[c].ok THEN Ok(FormatHeader(result[c].value))
                                    ELSE result[c]]
    /\ pc' = [pc EXCEPT ![c] = "api_done"]
    /\ UNCHANGED <<now, ticks, token, token_expires_at, token_lock,
                   expires_lock, response, fetched, result, posts, path,
                   seen, calls, issued, issuedAt, httpCalls, obtained,
                   committed, config, op, outbound, deadline, client, request>>

\* --------------------------------------------------------- search_items
\* client.rs:220-224: the base path of the Browse API
BrowseBasePath(sandbox) ==
    IF sandbox THEN "https://api.sandbox.ebay.com/buy/browse/v1"
               ELSE "https://api.ebay.com/buy/browse/v1"

\* offer.rs:51-55: the base path of the Offer API
OfferBasePath(sandbox) ==
    IF sandbox THEN "https://api.sandbox.ebay.com/buy/offer/v1"
               ELSE "https://api.ebay.com/buy/offer/v1"

BasePath(o, sandbox) ==
    IF o = "search_items" THEN BrowseBasePath(sandbox)
                          ELSE OfferBasePath(sandbox)

\* what the SDK call of operation o returns on success: a page of search
\* results, or a Bidding with its optional auction_status
SdkResponses(o) ==
    IF o = "search_items" THEN {"SearchPagedCollection"}
    ELSE {[auction_status |-> st] : st \in {None, Some("ENDED"),
                                             Some("ACTIVE")}}

\* the wrapper has consumed what get_access_token returned (the String is
\* moved into the request configuration or into the wrapper's own result);
\* the record of that call is over
Returned(c) ==
    /\ result' = [result EXCEPT ![c] = None]
    /\ posts' = [posts EXCEPT ![c] = 0]
    /\ path' = [path EXCEPT ![c] = "none"]
    /\ seen' = [seen EXCEPT ![c] = NoSeen]
    /\ obtained' = [obtained EXCEPT ![c] = 0]

\* client.rs:214, `?`: get_access_token failed, the wrapper returns its
\* error and sends nothing
TokenFailed(c) ==
    /\ pc[c] = "done"
    /\ op[c] \in Wrappers
    /\ ~result[c].ok
    /\ reply' = [reply EXCEPT ![c] = result[c]]
    /\ pc' = [pc EXCEPT ![c] = "api_done"]
    /\ Returned(c)
    /\ UNCHANGED <<now, ticks, token, token_expires_at, token_lock,
                   expires_lock, response, fetched, calls, issued, issuedAt,
                   httpCalls, committed, config, op, outbound, deadline,
                   client, request>>

\* client.rs:219-246: the wrapper attaches the token it was given to the
\* configuration of the request and the SDK sends the request
SendOutbound(c) ==
    /\ pc[c] = "done"
    /\ op[c] \in Wrappers
    /\ result[c].ok
    /\ outbound' = [outbound EXCEPT ![c] =
                       Some([base_path |-> BasePath(op[c], config.sandbox),
                             oauth_access_token |-> Some(result[c].value),
                             sent_at |-> now,
                             token_deadline |-> deadline[c]])]
    /\ deadline' = [deadline EXCEPT ![c] = 0]
    /\ pc' = [pc EXCEPT ![c] = "outbound"]
    /\ Returned(c)
    /\ UNCHANGED <<now, ticks, token, token_expires_at, token_lock,
                   expires_lock, response, fetched, calls, issued, issuedAt,
                   httpCalls, committed, config, op, reply, client, request>>

\* client.rs:250-262: the SDK call returns and the request is dropped; an
\* error of the SDK becomes ApiRequest
OutboundReturn(c) ==
    /\ pc[c] = "outbound"
    /\ \/ \E r \in SdkResponses(op[c]) :
             reply' = [reply EXCEPT ![c] = Ok(r)]
       \/ reply' = [reply EXCEPT ![c] = ApiRequest("eBay request failed")]
    /\ outbound' = [outbound EXCEPT ![c] = None]
    /\ pc' = [pc EXCEPT ![c] = "api_done"]
    /\ UNCHANGED <<now, ticks, token, token_expires_at, token_lock,
                   expires_lock, response, fetched, result, posts, path,
                   seen, calls, issued, issuedAt, httpCalls, obtained,
                   committed, config, op, deadline, client, request>>

\* ------------------------------------------------------ can_bid_on_item
\* offer.rs:152-154: bidding is possible unless the auction has ended or
\* has no status
CanBid(bidding) ==
    IF IsSome(bidding.auction_status)
    THEN bidding.auction_status[1] # "ENDED" ELSE FALSE

\* offer.rs:149-157: get_bidding has returned to can_bid_on_item, which
\* answers Ok(false) for every error
CanBidReturn(c) ==
    /\ pc[c] = "api_done"
    /\ op[c] = "can_bid_on_item"
    /\ reply' = [reply EXCEPT ![c] =
                    IF reply[c].ok THEN Ok(CanBid(reply[c].value))
                                   ELSE Ok(FALSE)]
    /\ pc' = [pc EXCEPT ![c] = "bid_done"]
    /\ UNCHANGED <<now, ticks, token, token_expires_at, token_lock,
                   expires_lock, response, fetched, result, posts, path,
                   seen, calls, issued, issuedAt, httpCalls, obtained,
                   committed, config, op, outbound, deadline, client, request>>

\* --------------------------------------------- EbayClient and sub-clients
\* An EbayClient is used by one task at a time here: an accessor takes
\* &mut self, and the reference it returns keeps the client borrowed.  A
\* get_access_token call that no other call overlaps is one step.

\* outcomes of a token exchange with a representable expiry
TokenOutcomes ==
    {[ok |-> FALSE, expires_in |-> 0]}
    \cup {[ok |-> TRUE, expires_in |-> e] :
             e \in ExpiresInValues \ {HugeExpiresIn}}

\* auth.rs:46-47 on the cache k of one EbayAuth
CacheValid(k) ==
    /\ IsSome(k.token)
    /\ IsSome(k.expires_at)
    /\ IsValid(now, k.expires_at[1])

\* an accessor that builds a new sub-client at every call
Accessor_AlwaysBuilds(s) ==
    /\ calls < MaxCalls
    /\ calls' = calls + 1
    /\ client' = [client EXCEPT
            !.slot[s] = Some(client.built + 1),
            !.built = client.built + 1,
            !.cache = client.cache @@ (client.built + 1 :> EmptyCache),
            !.last = [NoOperation EXCEPT
                        !.kind = "accessor", !.name = s,
                        !.auth = client.built + 1,
                        !.constructed = TRUE]]
    /\ UNCHANGED <<now, ticks, token, token_expires_at, token_lock,
                   expires_lock, pc, response, fetched, result, posts, path,
                   seen, issued, issuedAt, httpCalls, obtained, committed,
                   config, op, reply, outbound, deadline, request>>

\* client.rs:67-73 (feed), client.rs:108-114 (taxonomy): the accessor
\* builds the sub-client, and with it a new EbayAuth (feed.rs:18-21), only
\* when the slot is empty
Accessor(s) ==
    /\ calls < MaxCalls
    /\ calls' = calls + 1
    /\ IF client.slot[s] = None
       THEN client' = [client EXCEPT
                !.slot[s] = Some(client.built + 1),
                !.built = client.built + 1,
                !.cache = client.cache @@ (client.built + 1 :> EmptyCache),
                !.last = [NoOperation EXCEPT
                            !.kind = "accessor", !.name = s,
                            !.auth = client.built + 1,
                            !.constructed = TRUE]]
       ELSE client' = [client EXCEPT
                !.last = [NoOperation EXCEPT
                            !.kind = "accessor", !.name = s,
                            !.auth = client.slot[s][1]]]
    /\ UNCHANGED <<now, ticks, token, token_expires_at, token_lock,
                   expires_lock, pc, response, fetched, result, posts, path,
                   seen, issued, issuedAt, httpCalls, obtained, committed,
                   config, op, reply, outbound, deadline, request>>

\* a wrapper operation `name` that asks EbayAuth number i for its token
\* (auth.rs:40-58 and 61-104, without other callers)
OperationOn(i, name) ==
    /\ calls < MaxCalls
    /\ calls' = calls + 1
    /\ LET k == client.cache[i]
           did == [NoOperation EXCEPT
                     !.kind = "operation", !.name = name, !.auth = i]
       IN  IF CacheValid(k)
           THEN /\ client' = [client EXCEPT !.last =
                       [did EXCEPT
                          !.value = Ok(k.token[1].access_token)]]
                /\ UNCHANGED <<issued, httpCalls>>
           ELSE \E o \in TokenOutcomes :
                /\ httpCalls' = httpCalls + 1
                /\ IF o.ok
                   THEN /\ issued' = issued + 1
                        /\ client' = [client EXCEPT
                             !.cache[i] =
                                [token |-> Some(
                                    [access_token |-> issued + 1,
                                     token_type |-> "Bearer",
                                     expires_in |-> o.expires_in,
                                     scope |-> None]),
                                 expires_at |-> Some(
                                    ExpiresAt(now, o.expires_in))],
                             !.last = [did EXCEPT
                                         !.posted = TRUE,
                                         !.value = Ok(issued + 1)]]
                   ELSE /\ client' = [client EXCEPT !.last =
                               [did EXCEPT
                                  !.posted = TRUE,
                                  !.value = Authentication(
                                     [msg |-> "Failed to get token"])]]
                        /\ UNCHANGED issued
    /\ UNCHANGED <<now, ticks, token, token_expires_at, token_lock,
                   expires_lock, pc, response, fetched, result, posts, path,
                   seen, issuedAt, obtained, committed, config, op, reply,
                   outbound, deadline, request>>

\* client.rs:214: search_items uses the EbayAuth of the EbayClient
SearchItems == OperationOn(0, "search_items")

\* feed.rs:36: an operation of a sub-client uses the EbayAuth of that
\* sub-client
SubClientOperation(s) ==
    /\ IsSome(client.slot[s])
    /\ OperationOn(client.slot[s][1], s)

Next ==
    \/ \E c \in Callers : Call(c)
    \/ \E c \in Callers : LockToken(c)
    \/ \E c \in Callers : LockExpires(c)
    \/ \E c \in Callers : Check(c)
    \/ \E c \in Callers : Send(c)
    \/ \E c \in Callers : Respond(c)
    \/ \E c \in Callers : HandleResponse(c)
    \/ \E c \in Callers : CommitLockToken(c)
    \/ \E c \in Callers : CommitLockExpires(c)
    \/ \E c \in Callers : StoreToken(c)
    \/ \E c \in Callers : StoreExpires(c)
    \/ \E c \in Callers : ReadLockToken(c)
    \/ \E c \in Callers : Read(c)
    \/ Tick

Spec == Init /\ [][Next]_vars

\* Scheduling: the runtime polls every task that can run, so a caller that
\* can take a step other than a lock acquisition takes it; the token
\* exchange completes with an answer or an error; tokio's mutex serves its
\* waiters first come first served, so a caller that can acquire a mutex
\* again and again acquires it.  New calls and the clock are free.
Fairness ==
    \A c \in Callers :
        /\ WF_vars(Check(c) \/ Send(c) \/ HandleResponse(c)
                    \/ StoreToken(c) \/ StoreExpires(c) \/ Read(c))
        /\ WF_vars(Respond(c))
        /\ SF_vars(LockToken(c) \/ LockExpires(c) \/ CommitLockToken(c)
                    \/ CommitLockExpires(c) \/ ReadLockToken(c))

SpecFair == Init /\ [][Next]_vars /\ Fairness

\* the same callers on an EbayAuth built with either sandbox flag
InitEither == InitWith(EitherConfig)

SpecEither == InitEither /\ [][Next]_vars

\* every call is a call of get_auth_header
NextHeader ==
    \/ \E c \in Callers : CallHeader(c)
    \/ \E c \in Callers : LockToken(c)
    \/ \E c \in Callers : LockExpires(c)
    \/ \E c \in Callers : Check(c)
    \/ \E c \in Callers : Send(c)
    \/ \E c \in Callers : Respond(c)
    \/ \E c \in Callers : HandleResponse(c)
    \/ \E c \in Callers : CommitLockToken(c)
    \/ \E c \in Callers : CommitLockExpires(c)
    \/ \E c \in Callers : StoreToken(c)
    \/ \E c \in Callers : StoreExpires(c)
    \/ \E c \in Callers : ReadLockToken(c)
    \/ \E c \in Callers : Read(c)
    \/ \E c \in Callers : ReturnHeader(c)
    \/ Tick

SpecHeader == Init /\ [][NextHeader]_vars

\* every call is a call of the wrapper search_items
NextWrapper ==
    \/ \E c \in Callers : CallSearch(c)
    \/ \E c \in Callers : LockToken(c)
    \/ \E c \in Callers : LockExpires(c)
    \/ \E c \in Callers : Check(c)
    \/ \E c \in Callers : Send(c)
    \/ \E c \in Callers : Respond(c)
    \/ \E c \in Callers : HandleResponse(c)
    \/ \E c \in Callers : CommitLockToken(c)
    \/ \E c \in Callers : CommitLockExpires(c)
    \/ \E c \in Callers : StoreToken(c)
    \/ \E c \in Callers : StoreExpires(c)
    \/ \E c \in Callers : ReadLockToken(c)
    \/ \E c \in Callers : Read(c)
    \/ \E c \in Callers : TokenFailed(c)
    \/ \E c \in Callers : SendOutbound(c)
    \/ \E c \in Callers : OutboundReturn(c)
    \/ Tick

SpecWrapper == Init /\ [][NextWrapper]_vars

\* one task uses an EbayClient and the sub-clients of its accessors
NextClient ==
    \/ \E s \in SubClients : Accessor(s)
    \/ SearchItems
    \/ \E s \in SubClients : SubClientOperation(s)
    \/ Tick

SpecClient == Init /\ [][NextClient]_vars

\* every call is a call of can_bid_on_item of one OfferClient
NextOffer ==
    \/ \E c \in Callers : CallCanBid(c)
    \/ \E c \in Callers : LockToken(c)
    \/ \E c \in Callers : LockExpires(c)
    \/ \E c \in Callers : Check(c)
    \/ \E c \in Callers : Send(c)
    \/ \E c \in Callers : Respond(c)
    \/ \E c \in Callers : HandleResponse(c)
    \/ \E c \in Callers : CommitLockToken(c)
    \/ \E c \in Callers : CommitLockExpires(c)
    \/ \E c \in Callers : StoreToken(c)
    \/ \E c \in Callers : StoreExpires(c)
    \/ \E c \in Callers : ReadLockToken(c)
    \/ \E c \in Callers : Read(c)
    \/ \E c \in Callers : TokenFailed(c)
    \/ \E c \in Callers : SendOutbound(c)
    \/ \E c \in Callers : OutboundReturn(c)
    \/ \E c \in Callers : CanBidReturn(c)
    \/ Tick

SpecOffer == Init /\ [][NextOffer]_vars

\* ======================================================== properties
\* the cache as a caller holding both guards reads it
SeenValid(c) ==
    /\ seen[c].checked
    /\ IsSome(seen[c].token)
    /\ IsSome(seen[c].expires_at)
    /\ seen[c].at < seen[c].expires_at[1]

\* C1: a call whose check finds a cached token with now < expires_at returns
\* exactly that token's access_token and has sent no token-exchange POST.
C1_CacheHitAvoidsNetwork ==
    \A c \in Callers :
        SeenValid(c) =>
            /\ pc[c] = "done"
            /\ result[c] = Ok(seen[c].token[1].access_token)
            /\ posts[c] = 0

C1_Witness ==
    \E c \in Callers :
        /\ SeenValid(c)
        /\ pc[c] = "done"
        /\ result[c] = Ok(seen[c].token[1].access_token)
        /\ httpCalls > 0

\* C2: a call whose check finds the cache empty or not valid takes the
\* refresh path, and on that path has sent no POST before Send and exactly
\* one from Send on, up to and including its return, whatever the other
\* callers do.
C2_ExpiryTriggersOneRefresh ==
    \A c \in Callers :
        /\ (seen[c].checked /\ ~SeenValid(c)) =>
               (path[c] = "refresh" /\ pc[c] = "send")
        /\ path[c] = "refresh" =>
               posts[c] = (IF pc[c] = "send" THEN 0 ELSE 1)
        /\ (pc[c] = "done" /\ posts[c] = 0) => path[c] = "fast"

\* a call returned after a refresh with its one POST, a token having been
\* issued before and another caller's POST being in flight
C2_Witness ==
    \E c, d \in Callers :
        /\ c # d
        /\ pc[c] = "done" /\ path[c] = "refresh" /\ posts[c] = 1
        /\ result[c].ok /\ result[c].value > 1
        /\ pc[d] \in {"inflight", "status"}

\* C3 (as stated): at every successful return, on either path, now <
\* expires_at holds for the cached entry whose access_token is returned.
C3_NeverReturnsExpired ==
    [][\A c \in Callers :
          (pc[c] # "done" /\ pc'[c] = "done" /\ result'[c].ok) =>
              /\ IsSome(token_expires_at')
              /\ now' < token_expires_at'[1]]_vars

\* C3 (amended): a fast-path return returns the access_token of a cached
\* entry with now < expires_at; a return after a refresh returns the
\* access_token of the entry then in the cache, whatever its expiry.
C3_FastPathNeverReturnsExpired ==
    [][\A c \in Callers :
          (pc[c] # "done" /\ pc'[c] = "done" /\ result'[c].ok) =>
              /\ IsSome(token)
              /\ result'[c].value = token[1].access_token
              /\ token' = token /\ token_expires_at' = token_expires_at
              /\ pc[c] = "check" =>
                    (IsSome(token_expires_at) /\ now < token_expires_at[1])
              /\ pc[c] # "check" => pc[c] = "read"]_vars

\* a fast-path return of a token that is one second from its cached expiry
C3_Witness ==
    \E c \in Callers :
        /\ pc[c] = "done" /\ path[c] = "fast" /\ result[c].ok
        /\ IsSome(token) /\ token[1].expires_in = 61
        /\ result[c].value = token[1].access_token

\* C4: a call whose own token exchange failed (it obtained no token) has
\* returned an error: it sent exactly one POST and no cached token is
\* returned in place of the error.
C4_FailureReturnsError ==
    \A c \in Callers :
        (path[c] = "refresh" /\ obtained[c] = 0
            /\ pc[c] \notin {"send", "inflight", "status"}) =>
            /\ pc[c] = "done"
            /\ ~result[c].ok
            /\ result[c].kind = "Authentication"
            /\ posts[c] = 1

\* the exchange failed while the cache holds a token a concurrent caller
\* committed meanwhile
C4_Witness ==
    \E c, d \in Callers :
        /\ c # d
        /\ pc[c] = "done" /\ path[c] = "refresh" /\ obtained[c] = 0
        /\ ~result[c].ok
        /\ IsSome(token) /\ token[1].access_token = obtained[d]

\* what a step of caller c leaves alone when it does not write the cache
CacheUnchanged ==
    /\ token' = token
    /\ token_expires_at' = token_expires_at

\* the response caller c is about to handle is an HTTP response
Handles(c) ==
    /\ pc[c] = "status"
    /\ pc'[c] # "status"
    /\ response[c][1].kind = "http"

\* C5: a refresh that receives a non-2xx response writes neither cached
\* field, from its send to its end, and the call returns an Authentication
\* error carrying the HTTP status and the body text (the empty text when
\* the body could not be read).
C5_AtomicFailure ==
    [][\A c \in Callers :
          /\ (pc[c] \in {"send", "inflight"} /\ pc'[c] # pc[c]) =>
                 CacheUnchanged
          /\ (Handles(c) /\ response[c][1].status \notin 200..299) =>
                 /\ CacheUnchanged
                 /\ pc'[c] = "done"
                 /\ ~result'[c].ok
                 /\ result'[c].kind = "Authentication"
                 /\ result'[c].detail =
                       [msg |-> "Failed to get token",
                        status |-> response[c][1].status,
                        text |-> IF IsSome(response[c][1].body)
                                 THEN response[c][1].body[1].text
                                 ELSE ""]]_vars

\* a 401 was returned as an error while the cache holds a committed pair
C5_Witness ==
    \E c \in Callers :
        /\ pc[c] = "done" /\ ~result[c].ok
        /\ result[c].detail = [msg |-> "Failed to get token", status |-> 401,
                               text |-> "invalid_client"]
        /\ IsSome(token) /\ IsSome(token_expires_at)

\* a 2xx body that is not JSON or lacks a required field
Malformed(body) ==
    \/ ~IsSome(body)
    \/ ~IsSome(body[1].obj)
    \/ \E f \in RequiredFields : f \notin DOMAIN body[1].obj[1]

\* a 2xx JSON body with every field but scope
LacksOnlyScope(body) ==
    /\ IsSome(body)
    /\ IsSome(body[1].obj)
    /\ DOMAIN body[1].obj[1] = RequiredFields
    /\ body[1].obj[1].expires_in >= 0

\* C6: a 2xx response whose body is not JSON or lacks access_token,
\* token_type or expires_in ends the call with an Authentication error and
\* leaves token and expiry unchanged; a body lacking only scope is parsed
\* into a token with scope None, which the commit then stores.
C6_MalformedBody ==
    [][\A c \in Callers :
          /\ (Handles(c) /\ response[c][1].status \in 200..299
                /\ Malformed(response[c][1].body)) =>
                 /\ CacheUnchanged
                 /\ pc'[c] = "done"
                 /\ ~result'[c].ok
                 /\ result'[c].kind = "Authentication"
                 /\ result'[c].detail.msg = "Failed to parse token response"
          /\ (Handles(c) /\ response[c][1].status \in 200..299
                /\ LacksOnlyScope(response[c][1].body)) =>
                 /\ pc'[c] = "commit_lock_token"
                 /\ fetched'[c] =
                      Some([access_token |->
                                response[c][1].body[1].obj[1].access_token,
                            token_type |->
                                response[c][1].body[1].obj[1].token_type,
                            expires_in |->
                                response[c][1].body[1].obj[1].expires_in,
                            scope |-> None])
          /\ (pc[c] = "store_token" /\ pc'[c] # "store_token") =>
                 token' = Some(fetched[c][1])]_vars

\* a scope-less token is cached and a call ended with the parse error
C6_Witness ==
    \E c \in Callers :
        /\ pc[c] = "done" /\ ~result[c].ok
        /\ result[c].detail.msg = "Failed to parse token response"
        /\ IsSome(token) /\ token[1].scope = None
        /\ IsSome(token_expires_at)

\* both fields are those of one finished commit
Committed ==
    /\ IsSome(token)
    /\ IsSome(token_expires_at)
    /\ committed.expires_of = token[1].access_token

\* C7: after a commit at time t of a token with expires_in = e the cached
\* expiry is t + max(e - 60, 0): t + 3540 for e = 3600, t for e = 30, and
\* never before t.
C7_SafetyMargin ==
    Committed =>
        LET e == token[1].expires_in
            t == committed.at
            x == token_expires_at[1]
        IN  /\ x = t + (IF e - 60 > 0 THEN e - 60 ELSE 0)
            /\ x >= t
            /\ e = 3600 => x = t + 3540
            /\ e = 30 => x = t

\* a token with expires_in = 30 was committed after the clock had advanced
C7_Witness ==
    /\ Committed
    /\ token[1].expires_in = 30
    /\ committed.at > 0
    /\ token_expires_at[1] = committed.at

\* C8: a call whose check finds a committed entry with expires_in <= 60
\* takes the refresh path, and its next step sends a token-exchange POST.
C8_ShortLivedTokenDueAtNextUse ==
    [][\A c \in Callers :
          /\ (pc[c] = "check" /\ pc'[c] # "check" /\ Committed
                /\ token[1].expires_in <= 60) =>
                 (pc'[c] = "send" /\ path'[c] = "refresh")
          /\ (pc[c] = "send" /\ pc'[c] # "send") =>
                 /\ pc'[c] = "inflight"
                 /\ posts'[c] = posts[c] + 1
                 /\ httpCalls' = httpCalls + 1]_vars

\* a later call found the short-lived entry and has sent its POST
C8_Witness ==
    \E c \in Callers :
        /\ Committed /\ token[1].expires_in <= 60
        /\ path[c] = "refresh" /\ pc[c] = "inflight" /\ posts[c] = 1
        /\ obtained[c] = 0
        /\ issued = 1

\* C9 (as stated): whenever the cache holds a token with now < expires_at,
\* now is before the instant the server issued the token plus expires_in.
C9_ExpiredBeforeServerDeadline ==
    (Committed /\ now < token_expires_at[1]) =>
        now < committed.token_issued + token[1].expires_in

\* C10: a caller holding both guards at the check sees token and expiry
\* both absent, or both present and written by the same refresh.
C10_NoTornRead ==
    \A c \in Callers :
        pc[c] = "check" =>
            /\ IsSome(token) <=> IsSome(token_expires_at)
            /\ IsSome(token) => committed.expires_of = token[1].access_token

\* positions at which a caller holds the token mutex / the expiry mutex
HoldsToken == {"lock_expires", "check", "commit_lock_expires", "store_token",
               "store_expires", "read"}
HoldsExpires == {"check", "store_token", "store_expires"}
\* positions between the send of the POST and the handling of its outcome
InExchange == {"send", "inflight", "status"}

\* C11: a caller whose token exchange is being sent, is in flight or is
\* being handled holds neither mutex; a mutex is held only at the check,
\* the commit and the final read.
C11_NoLockAcrossIO ==
    \A c \in Callers :
        /\ pc[c] \in InExchange => (token_lock # c /\ expires_lock # c)
        /\ token_lock = c <=> pc[c] \in HoldsToken
        /\ expires_lock = c <=> pc[c] \in HoldsExpires

\* a reader holds both guards at the check of a valid token while the other
\* caller's POST is in flight
C11_Witness ==
    \E c, d \in Callers :
        /\ pc[c] = "check" /\ token_lock = c /\ expires_lock = c
        /\ IsSome(token) /\ IsSome(token_expires_at)
        /\ now < token_expires_at[1]
        /\ pc[d] = "inflight"

\* C12: callers whose checks find the same cached token with now <
\* expires_at have all returned that token's access_token, and none of them
\* has sent a token-exchange POST.
C12_ConcurrentReaders ==
    \A c, d \in Callers :
        (SeenValid(c) /\ SeenValid(d) /\ seen[c].token = seen[d].token) =>
            /\ pc[c] = "done" /\ pc[d] = "done"
            /\ result[c].ok /\ result[d].ok
            /\ result[c].value = result[d].value
            /\ result[c].value = seen[c].token[1].access_token
            /\ posts[c] = 0 /\ posts[d] = 0

\* both callers returned the one cached token, which a single POST fetched
C12_Witness ==
    \E c, d \in Callers :
        /\ c # d
        /\ SeenValid(c) /\ SeenValid(d) /\ seen[c].token = seen[d].token
        /\ pc[c] = "done" /\ pc[d] = "done"
        /\ result[c] = result[d] /\ result[c].ok
        /\ httpCalls = 1 /\ calls = 3

\* C13: a caller that observed no valid token can always send at once,
\* whatever the other callers are doing; every caller past its send on the
\* refresh path has sent its own POST, and the POSTs sent in total are at
\* least as many as those callers.
C13_NoCoalescing ==
    /\ \A c \in Callers :
          /\ pc[c] = "send" => ENABLED Send(c)
          /\ (path[c] = "refresh" /\ pc[c] # "send") => posts[c] = 1
    /\ httpCalls >=
          Cardinality({c \in Callers : path[c] = "refresh" /\ pc[c] # "send"})

\* two callers saw the empty cache and each has its own POST in flight
C13_Witness ==
    /\ \A c \in Callers : pc[c] = "inflight" /\ posts[c] = 1
    /\ httpCalls = NumCallers
    /\ token = None

\* C14 (as stated): a call that returns after its own successful refresh
\* returns the access_token that this refresh obtained.
C14_ReturnsOwnToken ==
    \A c \in Callers :
        (pc[c] = "done" /\ path[c] = "refresh" /\ result[c].ok) =>
            result[c].value = obtained[c]

\* C14 (amended): a call that returns after its own successful refresh
\* returns the access_token found in the cache at its final read: that of
\* its own refresh or that of a refresh that wrote the token slot after
\* its own did.
C14_ReturnsOwnOrLaterToken ==
    \A c \in Callers :
        (pc[c] = "done" /\ path[c] = "refresh" /\ result[c].ok) =>
            /\ obtained[c] # 0
            /\ \E i, j \in 1..Len(committed.log) :
                  /\ i <= j
                  /\ committed.log[i] = obtained[c]
                  /\ committed.log[j] = result[c].value

\* a call returned the token of the other caller's refresh, committed after
\* its own commit and before its final read
C14_Witness ==
    \E c, d \in Callers :
        /\ c # d /\ pc[d] # "panicked"
        /\ pc[c] = "done" /\ path[c] = "refresh" /\ result[c].ok
        /\ obtained[c] # 0
        /\ result[c].value = obtained[d]
        /\ result[c].value # obtained[c]
        /\ committed.log = <<obtained[c], obtained[d]>>

\* C15: get_auth_header returns "Bearer " followed by the access_token
\* that its get_access_token call returned, returns that call's error
\* unchanged when it failed, and sends no token-exchange request of its own
C15_HeaderFormat ==
    [][\A c \in Callers :
          (op[c] = "get_auth_header" /\ pc[c] = "done"
                                     /\ pc'[c] = "api_done") =>
              /\ reply'[c] = IF result[c].ok
                                THEN Ok(<<"Bearer ", result[c].value>>)
                                ELSE result[c]
              /\ posts'[c] = posts[c]
              /\ posts[c] = (IF path[c] = "refresh" THEN 1 ELSE 0)
              /\ httpCalls' = httpCalls]_vars

C15_Witness ==
    \E c, d \in Callers :
        /\ op[c] = "get_auth_header" /\ pc[c] = "api_done"
        /\ reply[c].ok /\ path[c] = "refresh"
        /\ op[d] = "get_auth_header" /\ pc[d] = "api_done"
        /\ ~reply[d].ok

\* the diagnostics of auth.rs:79, auth.rs:85-88 and auth.rs:92
C16_Diagnostics ==
    {"error sending request", "Failed to get token",
     "Failed to parse token response"}

\* C16: every failure of get_access_token and of get_auth_header, whatever
\* its cause (sending failed, non-2xx status, unparsable body), is of the
\* kind Authentication and carries one of the three diagnostics
C16_OnlyAuthenticationErrors ==
    \A c \in Callers :
        /\ (pc[c] \in {"done", "api_done"} /\ ~result[c].ok) =>
               /\ result[c].kind = "Authentication"
               /\ result[c].detail.msg \in C16_Diagnostics
        /\ (pc[c] = "api_done" /\ ~reply[c].ok) =>
               /\ reply[c].kind = "Authentication"
               /\ reply[c].detail.msg \in C16_Diagnostics

C16_Witness ==
    \E c, d \in Callers :
        /\ pc[c] = "api_done" /\ ~reply[c].ok
        /\ reply[c].detail.msg = "error sending request"
        /\ pc[d] = "api_done" /\ ~reply[d].ok
        /\ reply[d].detail.msg = "Failed to parse token response"

\* a field of the cache that is set stays set
StaysSet ==
    /\ IsSome(token) => IsSome(token')
    /\ IsSome(token_expires_at) => IsSome(token_expires_at')

\* the token changes only at line 99 of a refresh, the expiry only at
\* line 100 of a refresh that then returns Ok
OnlyCommitWrites ==
    /\ token' # token =>
           \E c \in Callers : /\ pc[c] = "store_token"
                              /\ pc'[c] = "store_expires"
                              /\ token' = Some(fetched[c][1])
    /\ token_expires_at' # token_expires_at =>
           \E c \in Callers : /\ pc[c] = "store_expires"
                              /\ pc'[c] = "read_lock_token"

\* a refresh that has replaced the token replaces the expiry with that of
\* this token before anything else happens to the cache
ReplacesBoth ==
    \A c \in Callers :
        (pc[c] = "store_expires" /\ pc'[c] # "store_expires") =>
            /\ pc'[c] = "read_lock_token"
            /\ token' = token
            /\ token_expires_at' = Some(ExpiresAt(now, token[1].expires_in))

\* C17: the cache is never destroyed: a set token and a set expiry stay
\* set; every refresh that writes the cache replaces both the token and
\* the expiry, and nothing else changes either of them.
C17_NeverDestroyed ==
    [][StaysSet /\ OnlyCommitWrites /\ ReplacesBoth]_vars

\* C18: whenever no caller is inside the commit critical section
\* (lines 96-101, both guards held), token and expiry are both unset or
\* both set.
C18_AllOrNothing ==
    (\A c \in Callers : pc[c] \notin {"store_token", "store_expires"}) =>
        (IsSome(token) <=> IsSome(token_expires_at))

\* caller c takes a step
Moves(c) == pc'[c] # pc[c]

CacheSame == token' = token /\ token_expires_at' = token_expires_at

\* C19: only the commit of a successful refresh writes the cache: every
\* step of a caller outside lines 99-100 (the check and return of the fast
\* path, the exchange and the error return of a failing refresh, the final
\* read, the return of get_auth_header) and every advance of the clock
\* leaves token and expiry unchanged; a refresh that wrote line 99 goes on
\* to return Ok; the stored credentials never change.
C19_OnlySuccessfulCommitWrites ==
    [][/\ config' = config
       /\ (\A c \in Callers : ~Moves(c)) => CacheSame
       /\ \A c \in Callers :
             /\ (Moves(c) /\ pc[c] \notin {"store_token", "store_expires"})
                    => CacheSame
             /\ (Moves(c) /\ pc[c] = "store_expires")
                    => pc'[c] = "read_lock_token"]_vars

\* C20: the token a wrapper attaches to its outbound request has not
\* reached its server-side deadline (issuance time plus expires_in) when
\* the request is sent.
C20_TokenValidWhenSent ==
    \A c \in Callers :
        IsSome(outbound[c]) =>
            outbound[c][1].sent_at < outbound[c][1].token_deadline

\* C21: a wrapper enters get_access_token once, at its start; it sends its
\* outbound request only after get_access_token returned Ok, with the token
\* returned; when get_access_token failed it sends nothing and returns the
\* Authentication error; a failed outbound request is returned as
\* ApiRequest; an operation built on a wrapper returns the wrapper's error.
C21_TokenBeforeRequest ==
    [][\A c \in Callers :
          /\ (Moves(c) /\ pc'[c] = "lock_token") =>
                 /\ pc[c] \in {"idle", ReturnPoint(op[c])}
                 /\ calls' = calls + 1
          /\ outbound'[c] # outbound[c] /\ IsSome(outbound'[c]) =>
                 /\ pc[c] = "done" /\ result[c].ok
                 /\ posts[c] = (IF path[c] = "refresh" THEN 1 ELSE 0)
                 /\ outbound'[c][1].oauth_access_token
                        = Some(result[c].value)
          /\ (Moves(c) /\ pc[c] = "done" /\ ~result[c].ok) =>
                 /\ pc'[c] = "api_done"
                 /\ outbound'[c] = None
                 /\ reply'[c] = result[c]
                 /\ reply'[c].kind = "Authentication"
          /\ (Moves(c) /\ pc[c] = "outbound") =>
                 /\ pc'[c] = "api_done"
                 /\ reply'[c].ok \/ reply'[c].kind = "ApiRequest"
          /\ (Moves(c) /\ pc[c] = "api_done" /\ pc'[c] # "lock_token"
                        /\ ~reply[c].ok) =>
                 reply'[c] = reply[c]]_vars

\* C22: a wrapper operation whose token acquisition failed returns Err to
\* its caller: it never turns the Authentication error into an Ok result.
C22_AuthFailureSurfaces ==
    [][\A c \in Callers :
          /\ (Moves(c) /\ pc[c] = "done" /\ op[c] \in Wrappers
                        /\ ~result[c].ok) =>
                 ~reply'[c].ok
          /\ (Moves(c) /\ pc[c] = "api_done" /\ pc'[c] # "lock_token"
                        /\ ~reply[c].ok
                        /\ reply[c].kind = "Authentication") =>
                 ~reply'[c].ok]_vars

\* some EbayAuth built for the client holds a token that is valid now
SomeCacheValid ==
    \E i \in DOMAIN client.cache : CacheValid(client.cache[i])

\* C23: once an operation of an EbayClient has cached a valid token, every
\* operation made through that client, on the client itself or on a
\* sub-client of its accessors, returns a cached valid token and sends no
\* token-exchange request.
C23_OneCachePerClient ==
    [][(SomeCacheValid /\ client'.last # client.last
                       /\ client'.last.kind = "operation") =>
          /\ httpCalls' = httpCalls
          /\ ~client'.last.posted
          /\ \E i \in DOMAIN client.cache :
                /\ CacheValid(client.cache[i])
                /\ client'.last.value
                      = Ok(client.cache[i].token[1].access_token)]_vars

\* C24: every token-exchange request goes to base_url followed by
\* /identity/v1/oauth2/token, base_url being the sandbox host exactly when
\* the sandbox flag of the configuration is set and the production host
\* otherwise; the flag, and so the url, is the same for every refresh.
C24_TokenEndpoint ==
    /\ \A c \in Callers :
          IsSome(request[c]) =>
              request[c][1].url =
                  <<IF config.sandbox THEN "https://api.sandbox.ebay.com"
                                      ELSE "https://api.ebay.com",
                    "/identity/v1/oauth2/token">>
    /\ \A c, d \in Callers :
          (IsSome(request[c]) /\ IsSome(request[d])) =>
              request[c][1].url = request[d][1].url
    /\ \A c \in Callers : pc[c] = "inflight" <=> IsSome(request[c])

\* the second refresh of an EbayAuth for production is in flight
C24_Witness ==
    \E c \in Callers :
        /\ IsSome(request[c])
        /\ ~config.sandbox
        /\ httpCalls >= 2
        /\ IsSome(token)

\* positions at which a caller waits for the token mutex / the expiry mutex
WaitsToken == {"lock_token", "commit_lock_token", "read_lock_token"}
WaitsExpires == {"lock_expires", "commit_lock_expires"}

\* caller d, holding a mutex, can take its next step
CanProceed(d) ==
    ENABLED (\/ LockExpires(d) \/ Check(d) \/ CommitLockExpires(d)
             \/ StoreToken(d) \/ StoreExpires(d) \/ Read(d))

\* C25: the callers never deadlock on the two mutexes: the expiry mutex is
\* held only by the holder of the token mutex (the token mutex is taken
\* first, the final read takes it alone), and whenever a caller waits for a
\* mutex that mutex is free or its holder can take its next step.
C25_NoDeadlock ==
    /\ expires_lock # NoOwner => token_lock = expires_lock
    /\ \A c \in Callers : pc[c] = "read" => expires_lock # c
    /\ \A c \in Callers :
          /\ pc[c] \in WaitsToken =>
                 \/ token_lock = NoOwner
                 \/ token_lock # c /\ CanProceed(token_lock)
          /\ pc[c] \in WaitsExpires =>
                 \/ expires_lock = NoOwner
                 \/ expires_lock # c /\ CanProceed(expires_lock)

\* one caller waits for the token mutex to commit while the other holds
\* both mutexes at the check
C25_Witness ==
    \E c, d \in Callers :
        /\ pc[c] = "commit_lock_token"
        /\ pc[d] = "check"
        /\ token_lock = d /\ expires_lock = d

\* C26: under fair scheduling, and with every token exchange completing,
\* every get_access_token call returns: with a token or with an
\* Authentication error.
C26_EveryCallReturns ==
    \A c \in Callers :
        (pc[c] = "lock_token") ~>
            (pc[c] = "done"
                /\ (result[c].ok \/ result[c].kind = "Authentication"))

\* C27: a caller to which refresh_token has returned Ok finds the token
\* slot set when it reads it (lines 56-57), so the unwrap does not panic.
C27_UnwrapNeverFails ==
    \A c \in Callers :
        pc[c] \in {"read_lock_token", "read"} => IsSome(token)

\* a caller is about to unwrap the slot while the other caller, holding a
\* token of its own refresh, waits to commit it
C27_Witness ==
    \E c, d \in Callers :
        /\ pc[c] = "read"
        /\ pc[d] = "commit_lock_token"
        /\ obtained[c] # 0
        /\ token[1].access_token # obtained[d]

\* C28: once several refreshes have committed, and while no caller is
\* inside the commit critical section, the cache holds the token and the
\* expiry of one refresh, the one that committed last, whatever the order
\* in which the server issued the tokens.
C28_LastCommitterWins ==
    (/\ committed.commits >= 2
     /\ \A c \in Callers : pc[c] \notin {"store_token", "store_expires"}) =>
        /\ IsSome(token) /\ IsSome(token_expires_at)
        /\ token[1].access_token = committed.expires_of
        /\ token_expires_at[1] = ExpiresAt(committed.at, token[1].expires_in)

\* C29: errors are not cached.  Once a get_access_token call has failed,
\* a caller that finds the cache absent or expired at its check goes on
\* to a token exchange of its own, posts it, and, when the exchange
\* answers 2xx with a parsable body, commits and returns the token of the
\* slot: no step of it ends in an error or in a panic.
C29_ErrorsNotCached ==
    [][\A c \in Callers :
        (committed.failed /\ Moves(c)) =>
            /\ (pc[c] = "check"
                   /\ ~(IsSome(token) /\ IsSome(token_expires_at)
                          /\ IsValid(now, token_expires_at[1])))
                 => (pc'[c] = "send" /\ path'[c] = "refresh")
            /\ pc[c] = "send"
                 => (pc'[c] = "inflight" /\ posts'[c] = 1
                       /\ httpCalls' = httpCalls + 1)
            /\ (pc[c] = "status" /\ response[c][1].kind # "error"
                   /\ is_success(response[c][1].status)
                   /\ ParseToken(response[c][1].body).ok)
                 => (pc'[c] = "commit_lock_token"
                       /\ obtained'[c] =
                            ParseToken(response[c][1].body).value.access_token)
            /\ pc[c] \in {"commit_lock_token", "commit_lock_expires",
                          "store_token", "store_expires"}
                 => pc'[c] \in {"commit_lock_expires", "store_token",
                                "store_expires", "read_lock_token"}
            /\ pc[c] = "read"
                 => (pc'[c] = "done" /\ IsSome(token)
                       /\ result'[c] = Ok(token[1].access_token))]_vars

\* C30: the first call of an accessor builds the sub-client of its slot;
\* every later call returns the instance already in the slot and builds
\* nothing, so the token cache of the sub-client is the one it had before
\* the call.  No accessor call changes another slot, a token cache that
\* exists, or the number of HTTP requests.
C30_AccessorsIdempotent ==
    [][(calls' # calls /\ client'.last.kind = "accessor") =>
          LET s == client'.last.name IN
          /\ IF client.slot[s] = None
             THEN /\ client'.last.constructed
                  /\ client'.built = client.built + 1
                  /\ client'.slot[s] = Some(client'.built)
                  /\ client'.built \notin DOMAIN client.cache
                  /\ client'.cache[client'.built] = EmptyCache
             ELSE /\ ~client'.last.constructed
                  /\ client'.built = client.built
                  /\ client'.slot[s] = client.slot[s]
                  /\ DOMAIN client'.cache = DOMAIN client.cache
          /\ client'.last.auth = client'.slot[s][1]
          /\ \A t \in SubClients \ {s} : client'.slot[t] = client.slot[t]
          /\ \A i \in DOMAIN client.cache :
                client'.cache[i] = client.cache[i]
          /\ httpCalls' = httpCalls
          /\ issued' = issued]_vars

\* an accessor has been called again after an operation of its sub-client
\* cached a token: it returned the same instance, whose cache still holds
\* the token
C30_Witness ==
    /\ client.last.kind = "accessor"
    /\ ~client.last.constructed
    /\ client.last.auth = client.slot[client.last.name][1]
    /\ IsSome(client.cache[client.last.auth].token)

TypeOK ==
    /\ token_lock \in Callers \cup {NoOwner}
    /\ expires_lock \in Callers \cup {NoOwner}
    /\ Len(token) <= 1 /\ Len(token_expires_at) <= 1

====
